---- MODULE Spec2Model ----
(***************************************************************************)
(* Model of src/server.js: an express server holding a list of users in    *)
(* memory (`users`), mirrored to a JSON file, with bcrypt password hashes  *)
(* and 24h JWT bearer tokens.                                              *)
(*                                                                         *)
(* Node runs one handler segment at a time: a handler runs from its start  *)
(* (or from the resumption of an `await`) to its next `await` or to its    *)
(* response without interruption.  Every action below is one such segment. *)
(***************************************************************************)
EXTENDS Integers, Sequences, FiniteSets, Bags, TLC

VARIABLES
    users,      \* server.js:59   let users = []
    file,       \* the contents of DATA_FILE on disk
    loadState,  \* position of the startup loadUsers() call (server.js:90)
    loadBuf,    \* what fs.readFile handed to loadUsers (server.js:64)
    secret,     \* server.js:41   JWT_SECRET of the running process
    envSecret,  \* whether process.env.JWT_SECRET is supplied (server.js:41)
    restarts,   \* number of process restarts so far
    now,        \* Date.now(), in milliseconds
    ticks,      \* number of clock advances so far
    inflight,   \* the bag of /register and /login handlers suspended at an await
    held,       \* the token a client kept from one of its logins
    heldAt,     \* history: Date.now() when `held` was signed
    heldIn,     \* history: the value of `restarts` when `held` was signed
    acct,       \* history: one registration that was answered 201
    wrote       \* history: how the file writes of this process have ended

vars == <<users, file, loadState, loadBuf, secret, envSecret, restarts, now,
          ticks, inflight, held, heldAt, heldIn, acct, wrote>>

----------------------------------------------------------------------------
(* Bounds of the model *)

MaxUsers == 2       \* registrations admitted past the uniqueness check
MaxInflight == 2    \* handlers suspended at an await at the same time
MaxRestarts == 1    \* process restarts
MaxLogins == 1      \* /login handlers suspended at the same time
MaxTicks == 4       \* clock advances of the token-lifetime model

(* Program constants *)

BCRYPT_SALT_ROUNDS == 10      \* server.js:39
ExpiresInSeconds == 86400     \* server.js:159  expiresIn: "24h"
MsPerSecond == 1000           \* jsonwebtoken: Math.floor(Date.now() / 1000)

(* Request inputs.  "" is a missing (falsy) field; NumberValue is a JSON   *)
(* number sent where a string is expected (truthy, not a string).          *)
NumberValue == "<number 123>"
Accounts ==
    {[username |-> "ann", email |-> "a@x", password |-> "pw1"],
     [username |-> "bob", email |-> "b@x", password |-> "pw1"]}
\* a second registration of ann's email, with another password
Rival == [username |-> "eve", email |-> "a@x", password |-> "pw2"]
RegisterInputs ==
    Accounts \cup
    {[username |-> "", email |-> "a@x", password |-> "pw1"],
     [username |-> "ann", email |-> "", password |-> "pw1"],
     [username |-> "ann", email |-> "a@x", password |-> ""],
     [username |-> "ann", email |-> "a@x", password |-> NumberValue],
     [username |-> "bob", email |-> "b@x", password |-> NumberValue]}
LoginInputs ==
    [email : {"a@x", "b@x"}, password : {"pw1", "pw2", NumberValue}] \cup
    {[email |-> "", password |-> "pw1"], [email |-> "a@x", password |-> ""]}

NoToken == [kind |-> "none"]
NoAcct == [kind |-> "none"]

Falsy(v) == v = ""
\* IsString that takes any value for a string
IsStringAny(v) == TRUE
IsString(v) == v # NumberValue

----------------------------------------------------------------------------
(* bcrypt *)

\* bcrypt.hash(password, BCRYPT_SALT_ROUNDS): an opaque hash value
bcryptHash(password) ==
    [alg |-> "bcrypt", rounds |-> BCRYPT_SALT_ROUNDS, of |-> password]

\* bcryptCompare that takes any password for any hash
bcryptCompareAny(password, hash) == TRUE

\* bcrypt.compare(password, hash)
bcryptCompare(password, hash) == hash.of = password

----------------------------------------------------------------------------
(* JSON file *)

\* JSON.stringify of one record: the Date becomes its ISO string
StringifyUser(u) ==
    [u EXCEPT !.createdAt = [type |-> "string", ms |-> u.createdAt.ms]]

\* server.js:81  JSON.stringify({ users }, null, 2)
Stringify(list) == [i \in 1..Len(list) |-> StringifyUser(list[i])]

NoFile == [kind |-> "ENOENT", users |-> <<>>]
Garbage == [kind |-> "garbage", users |-> <<>>]
JsonFile(list) == [kind |-> "json", users |-> Stringify(list)]

\* server.js:65-74  JSON.parse(data).users || [], and [] on any error
ParseUsers(buf) == IF buf.kind = "json" THEN buf.users ELSE <<>>

----------------------------------------------------------------------------
(* Lookups *)

Min(S) == CHOOSE m \in S : \A k \in S : m <= k

\* users.find((u) => u.email === email): the first match
HasEmail(list, email) == \E i \in 1..Len(list) : list[i].email = email
findByEmail(list, email) ==
    list[Min({i \in 1..Len(list) : list[i].email = email})]

\* users.find((u) => u.id === userId): the first match
HasId(list, id) == \E i \in 1..Len(list) : list[i].id = id
findById(list, id) == list[Min({i \in 1..Len(list) : list[i].id = id})]

\* WithoutPassword that forgets to drop the hash
WithPassword(u) == u

\* ({ password, ...user }) => user
WithoutPassword(u) == [k \in DOMAIN u \ {"password"} |-> u[k]]

Handlers == BagToSet(inflight)
Suspend(c) == inflight (+) SetToBag({c})
Finish(c) == inflight (-) SetToBag({c})
Writers == {c \in Handlers : c.kind = "register" /\ c.pc = "write"}
Logins ==
    BagCardinality([c \in {h \in Handlers : h.kind = "login"} |-> inflight[c]])
Admitted ==
    Len(users) + BagCardinality([c \in {h \in Handlers : h.kind = "register" /\ h.pc = "hash"}
                                   |-> inflight[c]])

----------------------------------------------------------------------------
(* Startup: loadUsers(), called at server.js:90 and not awaited *)

\* server.js:64  fs.readFile completes with the contents of the file
LoadRead ==
    /\ loadState = "reading"
    /\ loadBuf' = file
    /\ loadState' = "read"
    /\ UNCHANGED <<users, file, secret, envSecret, restarts, now, ticks,
                   inflight, held, heldAt, heldIn, acct, wrote>>

\* server.js:65-75  the continuation: users = JSON.parse(data).users || []
LoadResume ==
    /\ loadState = "read"
    /\ users' = ParseUsers(loadBuf)
    /\ loadState' = "done"
    /\ loadBuf' = NoFile
    /\ UNCHANGED <<file, secret, envSecret, restarts, now, ticks,
                   inflight, held, heldAt, heldIn, acct, wrote>>

----------------------------------------------------------------------------
(* POST /register *)

\* Whether the followed registration is of this process and of this email
Tracked(email) == acct.kind = "acct" /\ acct.epoch = restarts /\ acct.email = email

\* A handler segment that reaches an await without having answered
Suspended == [status |-> 0]

\* RegisterStartResponse that hashes before it looks the email up (the
\* lookup would follow the await)
RegisterStartHashFirst(username, email, password) ==
    IF Falsy(username) \/ Falsy(email) \/ Falsy(password)
    THEN [status |-> 400, body |-> [error |-> "All fields are required"]]
    ELSE IF ~IsString(password)
    THEN [status |-> 500, body |-> [error |-> "Internal server error"]]
    ELSE Suspended

\* server.js:94-108  validation, uniqueness check, call of bcrypt.hash:
\* the response sent, or Suspended at the await of the hash
RegisterStartResponse(username, email, password) ==
    IF Falsy(username) \/ Falsy(email) \/ Falsy(password)
    THEN [status |-> 400, body |-> [error |-> "All fields are required"]]
    ELSE IF HasEmail(users, email)
    THEN [status |-> 409, body |-> [message |-> "Email already registered"]]
    ELSE IF ~IsString(password)
    \* bcrypt.hash rejects a non-string on the next tick, before any other
    \* handler runs: the catch of server.js:124
    THEN [status |-> 500, body |-> [error |-> "Internal server error"]]
    ELSE Suspended

RegisterStart(username, email, password) ==
    /\ IF RegisterStartResponse(username, email, password) = Suspended
       THEN /\ Admitted < MaxUsers
            /\ BagCardinality(inflight) < MaxInflight
            /\ inflight' = Suspend([kind |-> "register", pc |-> "hash",
                                    username |-> username, email |-> email,
                                    password |-> password])
       ELSE UNCHANGED inflight
    /\ UNCHANGED <<users, file, loadState, loadBuf, secret, envSecret, restarts,
                   now, ticks, held, heldAt, heldIn, acct, wrote>>

\* NewUser that numbers a record by the length of the list before it
NewUserFromZero(list, c, t) ==
    [id |-> Len(list), username |-> c.username, email |-> c.email,
     password |-> bcryptHash(c.password),
     createdAt |-> [type |-> "Date", ms |-> t]]

\* server.js:111-117  the record built after the hash
NewUser(list, c, t) ==
    [id |-> Len(list) + 1, username |-> c.username, email |-> c.email,
     password |-> bcryptHash(c.password),
     createdAt |-> [type |-> "Date", ms |-> t]]

\* server.js:118  users.push(newUser)
Push(list, u) == Append(list, u)

\* server.js:108-121 and 81-82  resume after the hash: push, stringify,
\* call fs.writeFile
RegisterHashed(c) ==
    /\ c \in Handlers
    /\ c.kind = "register"
    /\ c.pc = "hash"
    /\ users' = Push(users, NewUser(users, c, now))
    /\ inflight' = Finish(c) (+)
           SetToBag({[c EXCEPT !.pc = "write"] @@ [data |-> JsonFile(users')]})
    /\ UNCHANGED <<file, loadState, loadBuf, secret, envSecret, restarts, now,
                   ticks, held, heldAt, heldIn, acct, wrote>>

\* What an fs.writeFile call can leave in the file.  "ok": the data;
\* "failed": the open failed, nothing was written; "torn": the file was
\* truncated and the write then failed; "mixed": another writeFile to the
\* same file was under way and their chunks interleaved, with no error
\* (Node documents concurrent writeFile calls on one file as unsafe).
WriteOutcomes(c) ==
    {"ok", "failed", "torn"} \cup
    (IF Writers \ {c} # {} \/ inflight[c] > 1 THEN {"mixed"} ELSE {})

FileAfter(outcome, data, old) ==
    CASE outcome = "ok" -> data
      [] outcome = "failed" -> old
      [] OTHER -> Garbage

\* server.js:84-86  whether fs.writeFile threw (saveUsers catches and logs it)
WriteThrew(outcome) == outcome \in {"failed", "torn"}

\* server.js:84-87 and 122  the list once saveUsers has returned: no rollback
AfterSave(list, outcome) == list

\* server.js:123  the response once saveUsers has returned, however it ended
RegisterSavedResponse(c, outcome) ==
    [status |-> 201, body |-> [message |-> "User registered successfully"]]

\* The first registration answered 201 is the one followed
Follow(c) ==
    IF acct.kind = "acct" THEN acct
    ELSE [kind |-> "acct", email |-> c.email, password |-> c.password,
          epoch |-> restarts]

\* server.js:82-87 and 123  fs.writeFile settles; the handler answers 201
RegisterSaved(c, outcome) ==
    /\ c \in Writers
    /\ outcome \in WriteOutcomes(c)
    /\ file' = FileAfter(outcome, c.data, file)
    /\ users' = AfterSave(users, outcome)
    /\ acct' = Follow(c)
    /\ inflight' = Finish(c)
    /\ wrote' = IF WriteThrew(outcome) \/ wrote = "error" THEN "error" ELSE "ok"
    /\ UNCHANGED <<loadState, loadBuf, secret, envSecret, restarts, now,
                   ticks, held, heldAt, heldIn>>

----------------------------------------------------------------------------
(* jsonwebtoken *)

\* Math.floor(Date.now() / 1000)
ClockSeconds(t) == t \div MsPerSecond

\* server.js:152-160  jwt.sign(payload, JWT_SECRET, { expiresIn: "24h" })
jwtSign(user, key, t) ==
    [kind |-> "jwt", userId |-> user.id, email |-> user.email,
     username |-> user.username, iat |-> ClockSeconds(t),
     exp |-> ClockSeconds(t) + ExpiresInSeconds, sig |-> key]

\* jwtVerify with the expiry test off by one: a token is still taken in the
\* second its exp names
jwtVerifyLate(token, key, t) ==
    /\ token.kind = "jwt"
    /\ token.sig = key
    /\ ~(ClockSeconds(t) > token.exp)

\* jwt.verify: well-formed, signed with the key, and not expired
\* (jsonwebtoken rejects when clockTimestamp >= payload.exp)
jwtVerify(token, key, t) ==
    /\ token.kind = "jwt"
    /\ token.sig = key
    /\ ~(ClockSeconds(t) >= token.exp)

----------------------------------------------------------------------------
(* POST /login *)

\* server.js:132-146  validation, lookup, call of bcrypt.compare: the
\* response sent, or Suspended at the await of the compare
LoginStartResponse(email, password) ==
    IF Falsy(email) \/ Falsy(password)
    THEN [status |-> 400, body |-> [error |-> "Email and password are required"]]
    ELSE IF ~HasEmail(users, email)
    THEN [status |-> 401, body |-> [error |-> "Invalid email or password"]]
    ELSE IF ~IsString(password)
    \* bcrypt.compare rejects a non-string on the next tick, before any
    \* other handler runs: the catch of server.js:173
    THEN [status |-> 500, body |-> [error |-> "Internal server error"]]
    ELSE Suspended

\* tracked is history: whether the credentials were those of the followed
\* registration of this process when the handler started
LoginStart(email, password) ==
    /\ IF LoginStartResponse(email, password) = Suspended
       THEN /\ BagCardinality(inflight) < MaxInflight
            /\ Logins < MaxLogins
            /\ inflight' = Suspend([kind |-> "login", pc |-> "compare",
                                    email |-> email, password |-> password,
                                    user |-> findByEmail(users, email),
                                    tracked |-> Tracked(email) /\ acct.password = password])
       ELSE UNCHANGED inflight
    /\ UNCHANGED <<users, file, loadState, loadBuf, secret, envSecret, restarts,
                   now, ticks, held, heldAt, heldIn, acct, wrote>>

\* server.js:146-172  resume after the compare: 401, or sign and answer 200
LoginComparedResponse(c) ==
    IF ~bcryptCompare(c.password, c.user.password)
    THEN [status |-> 401, body |-> [error |-> "Invalid email or password"]]
    ELSE [status |-> 200,
          body |-> [message |-> "Login successful",
                    token |-> jwtSign(c.user, secret, now),
                    user |-> [id |-> c.user.id, username |-> c.user.username,
                              email |-> c.user.email, createdAt |-> c.user.createdAt]]]

\* The first token a login returns is the one followed
LoginCompared(c) ==
    /\ c \in Handlers
    /\ c.kind = "login"
    /\ inflight' = Finish(c)
    /\ IF LoginComparedResponse(c).status = 200 /\ held.kind = "none"
       THEN /\ held' = LoginComparedResponse(c).body.token
            /\ heldAt' = now
            /\ heldIn' = restarts
       ELSE UNCHANGED <<held, heldAt, heldIn>>
    /\ UNCHANGED <<users, file, loadState, loadBuf, secret, envSecret, restarts,
                   now, ticks, acct, wrote>>

----------------------------------------------------------------------------
(* The gate and the protected routes *)

\* An Authorization header, as the list of its space-separated words;
\* <<>> is a request without the header.
Bearer == [kind |-> "word"]
EmptyWord == [kind |-> "empty"]
Malformed == [kind |-> "malformed"]
Undefined == [kind |-> "undefined"]
ForgedKey == 0 - 1
Forged ==
    IF held.kind = "jwt" THEN [held EXCEPT !.sig = ForgedKey]
    ELSE [kind |-> "jwt", userId |-> 1, email |-> "a@x", username |-> "ann",
          iat |-> ClockSeconds(now), exp |-> ClockSeconds(now) + ExpiresInSeconds,
          sig |-> ForgedKey]
Headers ==
    {<<>>, <<Bearer>>, <<Bearer, EmptyWord, Malformed>>, <<Bearer, Malformed>>,
     <<Bearer, Forged>>}
    \cup (IF held.kind = "jwt" THEN {<<Bearer, held>>, <<held>>} ELSE {})

\* server.js:208-209  authHeader && authHeader.split(" ")[1]
ExtractToken(header) == IF Len(header) >= 2 THEN header[2] ELSE Undefined

\* server.js:211  !token
NoTokenGiven(token) == token.kind \in {"undefined", "empty"}

\* server.js:219  req.user = user: the claims of the verified token
Claims(token) == [k \in DOMAIN token \ {"kind", "sig"} |-> token[k]]

\* Gate that answers 401, not 403, to a token that does not verify
GateAlways401(header) ==
    IF NoTokenGiven(ExtractToken(header))
       \/ ~jwtVerify(ExtractToken(header), secret, now)
    THEN [status |-> 401, body |-> [error |-> "Access token required"]]
    ELSE [status |-> 0, user |-> Claims(ExtractToken(header))]

\* Gate that looks the token's user up in the list and answers 403 when
\* the list has no such record
GateChecksStore(header) ==
    IF NoTokenGiven(ExtractToken(header))
    THEN [status |-> 401, body |-> [error |-> "Access token required"]]
    ELSE IF \/ ~jwtVerify(ExtractToken(header), secret, now)
            \/ ~HasId(users, ExtractToken(header).userId)
    THEN [status |-> 403, body |-> [error |-> "Invalid or expired token"]]
    ELSE [status |-> 0, user |-> Claims(ExtractToken(header))]

\* server.js:207-222  authenticateToken: the response it sends, or
\* status 0 and req.user when it calls next()
Gate(header) ==
    IF NoTokenGiven(ExtractToken(header))
    THEN [status |-> 401, body |-> [error |-> "Access token required"]]
    ELSE IF ~jwtVerify(ExtractToken(header), secret, now)
    THEN [status |-> 403, body |-> [error |-> "Invalid or expired token"]]
    ELSE [status |-> 0, user |-> Claims(ExtractToken(header))]

\* server.js:180-183  GET /users behind the gate
UsersResponse(header) ==
    IF Gate(header).status # 0 THEN Gate(header)
    ELSE [status |-> 200,
          body |-> [i \in 1..Len(users) |-> WithoutPassword(users[i])],
          user |-> Gate(header).user]

\* server.js:186-194  GET /profile behind the gate
ProfileResponse(header) ==
    IF Gate(header).status # 0 THEN Gate(header)
    ELSE IF ~HasId(users, Gate(header).user.userId)
    THEN [status |-> 404, body |-> [error |-> "User not found"],
          user |-> Gate(header).user]
    ELSE [status |-> 200,
          body |-> WithoutPassword(findById(users, Gate(header).user.userId)),
          user |-> Gate(header).user]

\* The two routes read the list and change nothing
GetUsers(header) ==
    /\ UsersResponse(header).status \in {200, 401, 403}
    /\ UNCHANGED vars

GetProfile(header) ==
    /\ ProfileResponse(header).status \in {200, 401, 403, 404}
    /\ UNCHANGED vars

----------------------------------------------------------------------------
(* The environment: the clock and process restarts *)


\* Date.now() moves on by one of the given amounts
Tick(jumps, max) ==
    /\ ticks < max
    /\ \E d \in jumps : now' = now + d
    /\ ticks' = ticks + 1
    /\ UNCHANGED <<users, file, loadState, loadBuf, secret, envSecret, restarts,
                   inflight, held, heldAt, heldIn, acct, wrote>>

\* StartupSecret whose generated secret is the same in every process
StartupSecretKept(old) == old

\* server.js:41  process.env.JWT_SECRET || generateSecureSecret()
StartupSecret(old) == IF envSecret THEN old ELSE old + 1

\* What a process stopped with writes under way leaves in the file
RestartFiles ==
    {file} \cup {c.data : c \in Writers} \cup (IF Writers # {} THEN {Garbage} ELSE {})

\* The process stops and is started again: server.js:41, 59 and 90 run anew
Restart ==
    /\ restarts < MaxRestarts
    /\ restarts' = restarts + 1
    /\ users' = <<>>
    /\ inflight' = EmptyBag
    /\ file' \in RestartFiles
    /\ loadState' = "reading"
    /\ loadBuf' = NoFile
    /\ secret' = StartupSecret(secret)
    /\ wrote' = "none"
    /\ UNCHANGED <<envSecret, now, ticks, held, heldAt, heldIn, acct>>

----------------------------------------------------------------------------
Init ==
    /\ users = <<>>
    /\ file = NoFile
    /\ loadState = "reading"
    /\ loadBuf = NoFile
    /\ secret = 0
    /\ envSecret \in BOOLEAN
    /\ restarts = 0
    /\ now = 0
    /\ ticks = 0
    /\ inflight = EmptyBag
    /\ held = NoToken
    /\ heldAt = 0
    /\ heldIn = 0
    /\ acct = NoAcct
    /\ wrote = "none"

Next ==
    \/ LoadRead
    \/ LoadResume
    \/ \E r \in RegisterInputs : RegisterStart(r.username, r.email, r.password)
    \/ \E c \in Handlers : RegisterHashed(c)
    \/ \E c \in Handlers, o \in {"ok", "failed", "torn", "mixed"} : RegisterSaved(c, o)
    \/ \E r \in LoginInputs : LoginStart(r.email, r.password)
    \/ \E c \in Handlers : LoginCompared(c)
    \/ \E h \in Headers : GetUsers(h)
    \/ \E h \in Headers : GetProfile(h)
    \/ Restart

Spec == Init /\ [][Next]_vars

----------------------------------------------------------------------------
(* The serving process: the startup load has completed, over no file or    *)
(* over the file an earlier process left with bob registered, and the      *)
(* process is not restarted.  A second registration of ann's email, with   *)
(* another password, is among the requests.                                *)

EarlierFiles ==
    {NoFile,
     JsonFile(<<NewUser(<<>>, [username |-> "bob", email |-> "b@x",
                              password |-> "pw1"], 0)>>)}

InitServing ==
    /\ file \in EarlierFiles
    /\ users = ParseUsers(file)
    /\ loadState = "done"
    /\ loadBuf = NoFile
    /\ secret = 0
    /\ envSecret \in BOOLEAN
    /\ restarts = 0
    /\ now = 0
    /\ ticks = 0
    /\ inflight = EmptyBag
    /\ held = NoToken
    /\ heldAt = 0
    /\ heldIn = 0
    /\ acct = NoAcct
    /\ wrote = "none"

NextServing ==
    \/ \E r \in RegisterInputs \cup {Rival} :
          RegisterStart(r.username, r.email, r.password)
    \/ \E c \in Handlers : RegisterHashed(c)
    \/ \E c \in Handlers, o \in {"ok", "failed", "torn", "mixed"} : RegisterSaved(c, o)
    \/ \E r \in LoginInputs : LoginStart(r.email, r.password)
    \/ \E c \in Handlers : LoginCompared(c)
    \/ \E h \in Headers : GetUsers(h)
    \/ \E h \in Headers : GetProfile(h)

SpecServing == InitServing /\ [][NextServing]_vars

----------------------------------------------------------------------------
(* Token lifetime: ann is registered, the clock moves in steps of half a   *)
(* second, 59 seconds and 23 hours 59 minutes.                             *)

ClockJumps == {500, 59000, 86340000}

InitClock ==
    /\ users = <<NewUser(<<>>, [username |-> "ann", email |-> "a@x",
                               password |-> "pw1"], 0)>>
    /\ file = JsonFile(users)
    /\ loadState = "done"
    /\ loadBuf = NoFile
    /\ secret = 0
    /\ envSecret \in BOOLEAN
    /\ restarts = 0
    /\ now = 0
    /\ ticks = 0
    /\ inflight = EmptyBag
    /\ held = NoToken
    /\ heldAt = 0
    /\ heldIn = 0
    /\ acct = [kind |-> "acct", email |-> "a@x", password |-> "pw1", epoch |-> 0]
    /\ wrote = "ok"

NextClock ==
    \/ \E r \in LoginInputs : LoginStart(r.email, r.password)
    \/ \E c \in Handlers : LoginCompared(c)
    \/ \E h \in Headers : GetUsers(h)
    \/ \E h \in Headers : GetProfile(h)
    \/ Tick(ClockJumps, MaxTicks)

SpecClock == InitClock /\ [][NextClock]_vars

----------------------------------------------------------------------------
(* Tokens across restarts: ann is registered and on file, the clock moves  *)
(* as above, and the process can be stopped and started again; the         *)
(* restarted process serves requests while its load is still under way.    *)

NextRestart ==
    \/ LoadRead
    \/ LoadResume
    \/ \E r \in LoginInputs : LoginStart(r.email, r.password)
    \/ \E c \in Handlers : LoginCompared(c)
    \/ \E h \in Headers : GetUsers(h)
    \/ \E h \in Headers : GetProfile(h)
    \/ Tick(ClockJumps, MaxTicks)
    \/ Restart

SpecRestart == InitClock /\ [][NextRestart]_vars

----------------------------------------------------------------------------
(* The claims *)

DayMs == ExpiresInSeconds * MsPerSecond
Registering == {c \in Handlers : c.kind = "register"}
LoggingIn == {c \in Handlers : c.kind = "login"}
WithEmail(list, email) == {i \in 1..Len(list) : list[i].email = email}
Present(r) == ~Falsy(r.email) /\ ~Falsy(r.password)
Invalid401 == [status |-> 401, body |-> [error |-> "Invalid email or password"]]

\* C1: no two records of the in-memory list have the same email, under any
\* interleaving of /register handlers.
C1_UniqueEmails ==
    \A i, j \in 1..Len(users) : i # j => users[i].email # users[j].email

\* C2: a registration with an unused email is answered 201, and a login
\* started after a registration was answered 201, in the same process and
\* with its email and password, is answered 200 with a token that the gate
\* verifies.
C2_RegisterThenLogin ==
    /\ \A r \in Accounts \cup {Rival} :
          ~HasEmail(users, r.email) =>
              RegisterStartResponse(r.username, r.email, r.password) = Suspended
    /\ \A c \in Writers : \A o \in WriteOutcomes(c) :
          RegisterSavedResponse(c, o).status = 201
    /\ \A r \in LoginInputs :
          Tracked(r.email) /\ acct.password = r.password =>
              LoginStartResponse(r.email, r.password) = Suspended
    /\ \A c \in LoggingIn :
          c.tracked =>
              IF LoginComparedResponse(c).status = 200
              THEN Gate(<<Bearer, LoginComparedResponse(c).body.token>>).status = 0
              ELSE FALSE

\* C3: a registration of an email started after a registration of that
\* email was answered 201 is answered 409 "Email already registered", and
\* the list holds exactly one record with that email.
C3_RepeatRegister409 ==
    \A r \in RegisterInputs \cup {Rival} :
        ~Falsy(r.username) /\ Present(r) /\ Tracked(r.email) =>
            /\ RegisterStartResponse(r.username, r.email, r.password) =
                   [status |-> 409, body |-> [message |-> "Email already registered"]]
            /\ Cardinality(WithEmail(users, r.email)) = 1

\* C4: a login with an email that is not in the store and a login with a
\* stored email and a password that is not its password get the same
\* response, 401 "Invalid email or password".
C4_LoginIndistinguishable ==
    /\ \A r \in LoginInputs :
          Present(r) /\ ~HasEmail(users, r.email) =>
              LoginStartResponse(r.email, r.password) = Invalid401
    /\ \A r \in LoginInputs :
          (/\ Present(r)
           /\ HasEmail(users, r.email)
           /\ ~bcryptCompare(r.password, findByEmail(users, r.email).password)) =>
              LoginStartResponse(r.email, r.password) \in {Suspended, Invalid401}
    /\ \A c \in LoggingIn :
          ~bcryptCompare(c.password, c.user.password) =>
              LoginComparedResponse(c) = Invalid401

\* The header carries a token / carries the token a login of this process
\* returned, within its lifetime
C5_HasToken(h) == Len(h) >= 2 /\ h[2].kind # "empty"
C5_GoodToken(h) ==
    /\ C5_HasToken(h)
    /\ held.kind = "jwt"
    /\ h[2] = held
    /\ held.sig = secret
    /\ ClockSeconds(now) < ClockSeconds(heldAt) + ExpiresInSeconds
C5_Answer(h, statusOf, userOf) ==
    /\ ~C5_HasToken(h) => statusOf = 401
    /\ C5_HasToken(h) /\ ~C5_GoodToken(h) => statusOf = 403
    /\ C5_GoodToken(h) =>
          /\ statusOf \in {200, 404}
          /\ userOf = [userId |-> held.userId, email |-> held.email,
                       username |-> held.username, iat |-> held.iat,
                       exp |-> held.exp]

\* C5: a request to GET /users or GET /profile without a token in its
\* Authorization header is answered 401 "Access token required"; one
\* whose token does not verify (malformed, bad signature, expired) is
\* answered 403 "Invalid or expired token"; the route's handler runs only
\* for a token that verifies, with the token's claims as req.user.
C5_GateContract ==
    \A h \in Headers :
        /\ C5_Answer(h, UsersResponse(h).status,
                     IF UsersResponse(h).status \in {200, 404}
                     THEN UsersResponse(h).user ELSE <<>>)
        /\ C5_Answer(h, ProfileResponse(h).status,
                     IF ProfileResponse(h).status \in {200, 404}
                     THEN ProfileResponse(h).user ELSE <<>>)
        /\ UsersResponse(h).status = 401 =>
              UsersResponse(h).body = [error |-> "Access token required"]
        /\ UsersResponse(h).status = 403 =>
              UsersResponse(h).body = [error |-> "Invalid or expired token"]
        /\ ProfileResponse(h).status = 401 =>
              ProfileResponse(h).body = [error |-> "Access token required"]
        /\ ProfileResponse(h).status = 403 =>
              ProfileResponse(h).body = [error |-> "Invalid or expired token"]

\* C5, its case: the token a login returned is presented after its expiry
\* and answered 403
C5_Witness ==
    /\ held.kind = "jwt"
    /\ ClockSeconds(now) >= held.exp
    /\ UsersResponse(<<Bearer, held>>).status = 403
    /\ ProfileResponse(<<Bearer, held>>).status = 403

\* C6 as stated: a token issued by login at time T is accepted by the gate
\* at every time before T+24h and answered 403 at every time after T+24h.
C6_Original ==
    held.kind = "jwt" /\ held.sig = secret =>
        /\ now < heldAt + DayMs => UsersResponse(<<Bearer, held>>).status = 200
        /\ now > heldAt + DayMs => UsersResponse(<<Bearer, held>>).status = 403

\* C6 as amended: a token issued by login at time T is accepted by the
\* gate at every time up to T+24h-1s and answered 403 at every time from
\* T+24h on (iat and the verifier's clock are whole seconds, rounded down).
C6_TokenLifetime ==
    held.kind = "jwt" /\ held.sig = secret =>
        /\ now + MsPerSecond <= heldAt + DayMs =>
              UsersResponse(<<Bearer, held>>).status = 200
        /\ now >= heldAt + DayMs =>
              UsersResponse(<<Bearer, held>>).status = 403

\* C6, its case: the token is presented 24h after its issue and answered 403
C6_Witness ==
    /\ held.kind = "jwt"
    /\ held.sig = secret
    /\ now = heldAt + DayMs
    /\ UsersResponse(<<Bearer, held>>).status = 403

NoPasswordField(r) == "password" \notin DOMAIN r /\ "passwordHash" \notin DOMAIN r
ErrorOnly(body) == DOMAIN body = {"error"}

\* C7: no body returned by GET /users, GET /profile or POST /login, success
\* or failure, carries a password or passwordHash field of a user record.
C7_NoHashInBodies ==
    /\ \A h \in Headers :
          /\ IF UsersResponse(h).status = 200
             THEN \A i \in DOMAIN UsersResponse(h).body :
                      NoPasswordField(UsersResponse(h).body[i])
             ELSE ErrorOnly(UsersResponse(h).body)
          /\ IF ProfileResponse(h).status = 200
             THEN NoPasswordField(ProfileResponse(h).body)
             ELSE ErrorOnly(ProfileResponse(h).body)
    /\ \A r \in LoginInputs :
          LoginStartResponse(r.email, r.password) # Suspended =>
              ErrorOnly(LoginStartResponse(r.email, r.password).body)
    /\ \A c \in LoggingIn :
          IF LoginComparedResponse(c).status = 200
          THEN /\ DOMAIN LoginComparedResponse(c).body = {"message", "token", "user"}
               /\ NoPasswordField(LoginComparedResponse(c).body.user)
               /\ NoPasswordField(LoginComparedResponse(c).body.token)
          ELSE ErrorOnly(LoginComparedResponse(c).body)

\* C7, its case: GET /users and GET /profile answer 200 from a list that
\* holds a record loaded from the file and a record pushed by /register
C7_Witness ==
    /\ held.kind = "jwt"
    /\ Len(users) > 1
    /\ users[1].createdAt.type = "string"
    /\ users[2].createdAt.type = "Date"
    /\ UsersResponse(<<Bearer, held>>).status = 200
    /\ ProfileResponse(<<Bearer, held>>).status = 200

\* C8: once the load of a restarted process has completed, a user whose
\* registration was answered 201 before the restart is in the in-memory
\* list and a login with the registered credentials is answered 200.
C8_ReloadAfterRestart ==
    acct.kind = "acct" /\ acct.epoch < restarts /\ loadState = "done" =>
        /\ HasEmail(users, acct.email)
        /\ LoginStartResponse(acct.email, acct.password) = Suspended
        /\ bcryptCompare(acct.password, findByEmail(users, acct.email).password)

\* C9: when no /register handler is in flight and no file write of the
\* process has failed, the file holds {users: <the in-memory list>}.
C9_FileMirrorsList ==
    Registering = {} /\ wrote = "ok" => file = JsonFile(users)

\* The record a handler pushed, as it stands in JSON
Pushed(c) == c.data.users[Len(c.data.users)]
Holds(list, c) == \E i \in 1..Len(list) : StringifyUser(list[i]) = Pushed(c)

\* C10: if the file write of a registration fails, the request is still
\* answered 201 and its record remains in the in-memory list, so that a
\* login with it succeeds, while the file is left without the record.
C10_WriteFailureKept ==
    \A c \in Writers : \A o \in WriteOutcomes(c) :
        WriteThrew(o) =>
            /\ RegisterSavedResponse(c, o).status = 201
            /\ Holds(AfterSave(users, o), c)
            /\ bcryptCompare(c.password, findByEmail(users, c.email).password)
            /\ ~Holds(FileAfter(o, c.data, file).users, c)

\* The held token was signed by an earlier process / is within its lifetime
FromEarlierProcess == held.kind = "jwt" /\ heldIn < restarts
Unexpired == ClockSeconds(now) < ClockSeconds(heldAt) + ExpiresInSeconds

\* C11: after a restart of a process whose JWT_SECRET was generated
\* (not supplied), every token issued before the restart is answered 403
\* by the gate; with a supplied JWT_SECRET, a token issued before the
\* restart and not yet expired is still accepted.
C11_SecretAcrossRestart ==
    FromEarlierProcess =>
        IF envSecret
        THEN Unexpired =>
                 /\ Gate(<<Bearer, held>>).status = 0
                 /\ UsersResponse(<<Bearer, held>>).status = 200
        ELSE /\ UsersResponse(<<Bearer, held>>).status = 403
             /\ ProfileResponse(<<Bearer, held>>).status = 403
             /\ UsersResponse(<<Bearer, held>>).body =
                    [error |-> "Invalid or expired token"]

\* C11, its case: a token of the earlier process, still within its 24h, is
\* presented to the restarted process, whose secret was generated anew
C11_Witness ==
    /\ FromEarlierProcess
    /\ ~envSecret
    /\ Unexpired
    /\ loadState = "done"
    /\ UsersResponse(<<Bearer, held>>).status = 403

\* The same token presented to a restarted process with a supplied secret
C11_SuppliedSecretCase ==
    /\ FromEarlierProcess
    /\ envSecret
    /\ Unexpired
    /\ UsersResponse(<<Bearer, held>>).status = 200

\* The held token is signed with the secret of the running process
SignedHere == held.kind = "jwt" /\ held.sig = secret
NoRecordOf(id) == \A i \in 1..Len(users) : users[i].id # id

\* C12: the gate takes a token that verifies whether or not the list has
\* a record with its userId; with a valid token whose userId matches no
\* record, GET /profile answers 404 "User not found" and GET /users
\* answers 200 with the list.
C12_ClaimsTrusted ==
    SignedHere /\ Unexpired =>
        /\ Gate(<<Bearer, held>>).status = 0
        /\ Gate(<<Bearer, held>>).user.userId = held.userId
        /\ UsersResponse(<<Bearer, held>>).status = 200
        /\ Len(UsersResponse(<<Bearer, held>>).body) = Len(users)
        /\ NoRecordOf(held.userId) =>
              /\ ProfileResponse(<<Bearer, held>>).status = 404
              /\ ProfileResponse(<<Bearer, held>>).body =
                     [error |-> "User not found"]
        /\ ~NoRecordOf(held.userId) =>
              ProfileResponse(<<Bearer, held>>).status = 200

\* C12, its case: a valid token of the earlier process is presented to the
\* restarted process (supplied secret) before its load has filled the list
C12_Witness ==
    /\ SignedHere
    /\ Unexpired
    /\ FromEarlierProcess
    /\ users = <<>>
    /\ NoRecordOf(held.userId)
    /\ ProfileResponse(<<Bearer, held>>).status = 404
    /\ UsersResponse(<<Bearer, held>>).status = 200

IsPrefix(long, short) ==
    /\ Len(short) <= Len(long)
    /\ \A i \in 1..Len(short) : long[i] = short[i]

\* C13: within one process the in-memory list only grows at its end: in
\* every step the list before is a prefix of the list after, under every
\* interleaving, /register handlers that run while the startup load is
\* still under way included.
C13_AppendOnly ==
    [][restarts' = restarts => IsPrefix(users', users)]_vars

\* C14: the i-th record of the in-memory list has id i, so ids are
\* unique and increase in insertion order, which is the order of GET
\* /users; from an empty list or a loaded list numbered 1..n, under any
\* interleaving of /register handlers.
C14_IdsCountUp ==
    /\ \A i \in 1..Len(users) : users[i].id = i
    /\ \A h \in Headers :
          UsersResponse(h).status = 200 =>
              \A i \in DOMAIN UsersResponse(h).body :
                  UsersResponse(h).body[i].id = i

\* C14, its case: two /register handlers overlapped, both have pushed and
\* one has been answered
C14_Witness ==
    /\ Len(users) = 2
    /\ users[1].email = users[2].email
    /\ users[2].id = 2
    /\ acct.kind = "acct"

MissingField(r) == Falsy(r.username) \/ Falsy(r.email) \/ Falsy(r.password)

\* The /register handler started with r can change the list, the file or
\* the set of handlers awaiting a hash or a write
RegisterStartActs(r) ==
    ENABLED (/\ RegisterStart(r.username, r.email, r.password)
             /\ <<users, file, inflight>>' # <<users, file, inflight>>)

\* C15: /register validates the fields, then looks the email up, then
\* hashes, then appends: a request that lacks username, email or password
\* is answered 400 and a request whose email is in the list is answered
\* 409, and in both cases no hash is started and the in-memory list and
\* the file are left as they were.
C15_RegisterOrder ==
    \A r \in RegisterInputs \cup {Rival} :
        /\ MissingField(r) =>
              /\ RegisterStartResponse(r.username, r.email, r.password) =
                     [status |-> 400, body |-> [error |-> "All fields are required"]]
              /\ ~RegisterStartActs(r)
        /\ ~MissingField(r) /\ WithEmail(users, r.email) # {} =>
              /\ RegisterStartResponse(r.username, r.email, r.password) =
                     [status |-> 409, body |-> [message |-> "Email already registered"]]
              /\ ~RegisterStartActs(r)

\* C15, its case: with ann's email in the list, a request with her email
\* (and a password that bcrypt would refuse) is answered 409, a request
\* without a username 400, while a request with a free email starts a hash
C15_Witness ==
    /\ WithEmail(users, "a@x") # {}
    /\ WithEmail(users, "b@x") = {}
    /\ RegisterStartResponse("ann", "a@x", NumberValue).status = 409
    /\ RegisterStartResponse("", "a@x", "pw1").status = 400
    /\ RegisterStartActs([username |-> "bob", email |-> "b@x", password |-> "pw1"])

InternalError == [status |-> 500, body |-> [error |-> "Internal server error"]]

\* The /login handler started with r can change the state (suspend at the
\* compare, and so come to issue a token)
LoginStartActs(r) ==
    ENABLED (LoginStart(r.email, r.password) /\ vars' # vars)

\* C16: a failure inside /register or /login is caught by the handler and
\* answered 500 "Internal server error", and the process goes on serving:
\* when the hash fails, the in-memory list and the file are left as they
\* were; when the password comparison throws, no token is issued.
C16_CaughtAs500 ==
    /\ \A r \in RegisterInputs \cup {Rival} :
          (/\ ~MissingField(r)
           /\ WithEmail(users, r.email) = {}
           /\ r.password = NumberValue) =>
              /\ RegisterStartResponse(r.username, r.email, r.password) = InternalError
              /\ ENABLED RegisterStart(r.username, r.email, r.password)
              /\ ~RegisterStartActs(r)
    /\ \A r \in LoginInputs :
          (/\ Present(r)
           /\ WithEmail(users, r.email) # {}
           /\ r.password = NumberValue) =>
              /\ LoginStartResponse(r.email, r.password) = InternalError
              /\ ENABLED LoginStart(r.email, r.password)
              /\ ~LoginStartActs(r)
    /\ \A h \in Headers : ENABLED GetUsers(h) /\ ENABLED GetProfile(h)

\* C16, its case: bcrypt refuses the password of a /register for a free
\* email and of a /login for a stored email; both are answered 500 and a
\* /login with the stored password can still be started, after an earlier
\* /login that returned a token
C16_Witness ==
    /\ held.kind = "jwt"
    /\ WithEmail(users, "a@x") = {}
    /\ WithEmail(users, "b@x") # {}
    /\ RegisterStartResponse("ann", "a@x", NumberValue) = InternalError
    /\ LoginStartResponse("b@x", NumberValue) = InternalError
    /\ LoginStartActs([email |-> "b@x", password |-> "pw1"])

\* C17: for a token issued by a /login of the running process and
\* presented while valid, GET /profile answers 404 or returns the record
\* whose email and username are those of the token's claims, after any
\* registrations and logins, those handled before the startup load has
\* completed included.
C17_ProfileIsOwn ==
    held.kind = "jwt" /\ heldIn = restarts /\ SignedHere /\ Unexpired =>
        \/ ProfileResponse(<<Bearer, held>>).status = 404
        \/ /\ ProfileResponse(<<Bearer, held>>).status = 200
           /\ ProfileResponse(<<Bearer, held>>).body.email = held.email
           /\ ProfileResponse(<<Bearer, held>>).body.username = held.username

\* The /login handlers that this step has suspended at their compare
Begun == {c \in BagToSet(inflight') :
             c.kind = "login" /\ CopiesIn(c, inflight') > CopiesIn(c, inflight)}

\* Every answer a suspended /login can give is 401, or 200 with a token
\* and a user view made from the record it looked up, whose email is the
\* requested one and whose hash is that of the supplied password; the
\* other responses of /login and /register carry no token
C18_Answers ==
    /\ \A c \in LoggingIn :
          /\ c.user.email = c.email
          /\ LoginComparedResponse(c).status \in {200, 401}
          /\ LoginComparedResponse(c).status = 200 =>
                /\ c.user.password = bcryptHash(c.password)
                /\ LoginComparedResponse(c).body.token.userId = c.user.id
                /\ LoginComparedResponse(c).body.token.email = c.user.email
                /\ LoginComparedResponse(c).body.token.username = c.user.username
                /\ LoginComparedResponse(c).body.user.id = c.user.id
                /\ LoginComparedResponse(c).body.user.email = c.user.email
                /\ LoginComparedResponse(c).body.user.username = c.user.username
    /\ \A r \in LoginInputs :
          /\ LoginStartResponse(r.email, r.password).status # 200
          /\ "token" \notin DOMAIN LoginStartResponse(r.email, r.password)
    /\ \A c \in Writers : \A o \in WriteOutcomes(c) :
          DOMAIN RegisterSavedResponse(c, o).body = {"message"}

\* A /login suspends with a record that is in the list when it looks the
\* email up, and a client comes to hold a token only through the 200
\* answer of a /login
C18_Steps ==
    /\ \A c \in Begun :
          /\ \E i \in 1..Len(users) : users[i] = c.user
          /\ c.user = findByEmail(users, c.email)
    /\ held' # held =>
          \E c \in LoggingIn :
              /\ LoginComparedResponse(c).status = 200
              /\ held' = LoginComparedResponse(c).body.token
              /\ inflight' = Finish(c)

\* C18: a token is issued only after a successful password check: every
\* 200 answer of /login is for a record that was in the list at the
\* lookup, has the requested email and a hash that verifies the supplied
\* password, and the token's claims and the user view are that record's
\* id, email and username; nothing else issues a token.
C18_TokenOnlyAfterCheck == []C18_Answers /\ [][C18_Steps]_vars

\* C18, its case: a client holds a token and a /login with the right
\* password of a stored email is about to be answered 200, with two
\* records in the list
C18_Witness ==
    /\ held.kind = "jwt"
    /\ Len(users) = 2
    /\ \E c \in LoggingIn : LoginComparedResponse(c).status = 200

====
